---- MODULE Spec2Model ----
(***************************************************************************)
(* processEntries (src/template/src/lib/openai.ts, lines 48-158) and the   *)
(* embedding helper embed (lines 18-32).                                   *)
(*                                                                         *)
(* Strings are sequences of one-character strings, so that the regular     *)
(* expressions, String.includes, trim and toLowerCase of the source are    *)
(* computed character by character.  A timestamp string is the record of   *)
(* its format and fields; numbers are exact (scores are kept as the pair   *)
(* dot product / squared norm product, compared as reals).                 *)
(***************************************************************************)
EXTENDS Integers, Sequences, FiniteSets, TLC

VARIABLES
  entries,         \* argument `entries`: the VoiceEntry records
  query,           \* argument `query`: [kind |-> "undefined"] or a string
  provider,        \* environment of embed: "stub", "live" or "down"
  tz,              \* environment: local time zone offset from UTC, in hours
  now,             \* environment: the clock read by `new Date()`
  pc,              \* position in processEntries
  queryEmbedding,  \* local `queryEmbedding`
  i,               \* index of the next entry of the for-of loop
  tagFrequencies,  \* local `tagFrequencies`
  tasks,           \* local `tasks`
  result,          \* what the returned promise settled with
  embedCalls,      \* number of calls of embed made by this invocation
  consoleLog,      \* number of console.log calls made by this invocation
  earlier          \* the earlier invocations on these arguments, settled

vars == << entries, query, provider, tz, now, pc, queryEmbedding, i,
           tagFrequencies, tasks, result, embedCalls, consoleLog, earlier >>

-----------------------------------------------------------------------------
(* Characters and strings                                                  *)

LowerLetters ==
  << "a","b","c","d","e","f","g","h","i","j","k","l","m",
     "n","o","p","q","r","s","t","u","v","w","x","y","z" >>

UpperLetters ==
  << "A","B","C","D","E","F","G","H","I","J","K","L","M",
     "N","O","P","Q","R","S","T","U","V","W","X","Y","Z" >>

Digits == << "0","1","2","3","4","5","6","7","8","9" >>

Range(f) == { f[x] : x \in DOMAIN f }

IndexOf(seq, c) == CHOOSE k \in DOMAIN seq : seq[k] = c

LowerSet == Range(LowerLetters)

UpperSet == Range(UpperLetters)

DigitSet == Range(Digits)

\* String.prototype.charCodeAt for the characters the model uses.
CharCode(c) ==
  IF c \in LowerSet THEN 96 + IndexOf(LowerLetters, c)
  ELSE IF c \in UpperSet THEN 64 + IndexOf(UpperLetters, c)
  ELSE IF c \in DigitSet THEN 47 + IndexOf(Digits, c)
  ELSE IF c = " " THEN 32
  ELSE IF c = "\"" THEN 34
  ELSE IF c = "'" THEN 39
  ELSE IF c = "-" THEN 45
  ELSE 95  \* "_"

\* The lower-case letter of each upper-case letter.
LowerOf == [c \in UpperSet |-> LowerLetters[IndexOf(UpperLetters, c)]]

\* String.prototype.toLowerCase, one character.
LowerChar(c) == IF c \in UpperSet THEN LowerOf[c] ELSE c

toLowerCase(s) == [k \in DOMAIN s |-> LowerChar(s[k])]

\* The class \w of a regular expression.
WordChars == LowerSet \cup UpperSet \cup DigitSet \cup {"_"}

IsWordChar(c) == c \in WordChars

\* White space as String.prototype.trim sees it.
IsSpace(c) == c = " "

\* The assertion \b before position p of s (p in 1..Len(s)+1).
WordBoundary(s, p) ==
  LET before == p > 1 /\ IsWordChar(s[p - 1])
      after  == p <= Len(s) /\ IsWordChar(s[p])
  IN  before # after

\* Whether the literal w occurs in s starting at position p.
LiteralAt(s, p, w) ==
  /\ p + Len(w) - 1 <= Len(s)
  /\ \A k \in 1..Len(w) : s[p + k - 1] = w[k]

\* String.prototype.includes.
includes(s, w) == \E p \in 1..(Len(s) - Len(w) + 1) : LiteralAt(s, p, w)

\* String.prototype.trim.
trim(s) ==
  LET keep == { k \in DOMAIN s : ~IsSpace(s[k]) }
  IN  IF keep = {} THEN << >>
      ELSE LET lo == CHOOSE k \in keep : \A j \in keep : k <= j
               hi == CHOOSE k \in keep : \A j \in keep : k >= j
           IN  SubSeq(s, lo, hi)

\* JavaScript truthiness of a string.
Truthy(s) == Len(s) > 0

-----------------------------------------------------------------------------
(* The lexicons                                                            *)

-----------------------------------------------------------------------------
(* Bounds and constants                                                    *)

\* The length of the fallback embedding (line 29).
EmbedLength == 8

\* The most records of an invocation, per family of inputs.
MaxTextEntries == 2

MaxDateEntries == 1

MaxTagEntries == 2

MaxRankEntries == 3

MaxMalformedEntries == 2

MaxPureEntries == 1

MaxCosineEntries == 2

\* Invocations of processEntries on the same arguments.
MaxInvocations == 2

\* The most tags of a record.
MaxTags == 2

\* What the embedding API may answer.
LiveVectors == { << >>, <<0, 0>>, <<1, 0>>, <<1, 1>> }

taskVerbs ==
  << <<"p","l","a","n">>,
     <<"p","l","a","n","n","i","n","g">>,
     <<"p","l","a","n","n","e","d">>,
     <<"n","e","e","d">>,
     <<"n","e","e","d","s">>,
     <<"n","e","e","d","i","n","g">>,
     <<"w","a","n","t">>,
     <<"w","a","n","t","s">>,
     <<"w","a","n","t","i","n","g">>,
     <<"s","c","h","e","d","u","l","e">>,
     <<"s","c","h","e","d","u","l","i","n","g">>,
     <<"s","c","h","e","d","u","l","e","d">>,
     <<"g","o","i","n","g"," ","t","o">>,
     <<"t","o","m","o","r","r","o","w">>,
     <<"t","o","d","a","y">>,
     <<"y","e","s","t","e","r","d","a","y">>,
     <<"t","h","i","s"," ","w","e","e","k">>,
     <<"n","e","x","t"," ","w","e","e","k">>,
     <<"s","t","a","r","t">>,
     <<"s","t","a","r","t","i","n","g">>,
     <<"s","t","a","r","t","e","d">>,
     <<"f","i","n","i","s","h">>,
     <<"f","i","n","i","s","h","i","n","g">>,
     <<"f","i","n","i","s","h","e","d">>,
     <<"c","a","l","l">>,
     <<"c","a","l","l","i","n","g">>,
     <<"c","a","l","l","e","d">>,
     <<"b","u","y">>,
     <<"b","u","y","i","n","g">>,
     <<"b","o","u","g","h","t">>,
     <<"r","e","p","l","y">>,
     <<"r","e","p","l","y","i","n","g">>,
     <<"r","e","p","l","i","e","d">>,
     <<"s","e","n","d">>,
     <<"s","e","n","d","i","n","g">>,
     <<"s","e","n","t">>,
     <<"c","l","e","a","n">>,
     <<"c","l","e","a","n","i","n","g">>,
     <<"c","l","e","a","n","e","d">>,
     <<"o","r","g","a","n","i","z","e">>,
     <<"o","r","g","a","n","i","z","i","n","g">>,
     <<"o","r","g","a","n","i","z","e","d">>,
     <<"s","u","b","m","i","t">>,
     <<"s","u","b","m","i","t","t","i","n","g">>,
     <<"s","u","b","m","i","t","t","e","d">>,
     <<"b","o","o","k">>,
     <<"b","o","o","k","i","n","g">>,
     <<"b","o","o","k","e","d">> >>

WorkKeywords ==
  << <<"j","o","b">>,
     <<"w","o","r","k">>,
     <<"p","r","o","p","o","s","a","l">>,
     <<"r","e","p","o","r","t">>,
     <<"m","e","e","t","i","n","g">>,
     <<"i","n","t","e","r","v","i","e","w">>,
     <<"r","e","s","u","m","e">>,
     <<"e","m","a","i","l">>,
     <<"s","l","i","d","e","s">>,
     <<"a","p","p","l","i","c","a","t","i","o","n">> >>

PersonalKeywords ==
  << <<"m","o","m">>,
     <<"g","r","a","n","d","p","a">>,
     <<"a","u","n","t">>,
     <<"f","r","i","e","n","d","s">>,
     <<"c","a","l","l">>,
     <<"c","o","f","f","e","e">>,
     <<"f","a","m","i","l","y">>,
     <<"g","r","a","n","d","m","o","t","h","e","r">>,
     <<"c","a","t","c","h"," ","u","p">> >>

HealthKeywords ==
  << <<"h","e","a","l","t","h">>,
     <<"c","a","f","f","e","i","n","e">>,
     <<"s","u","g","a","r">>,
     <<"r","u","n">>,
     <<"w","o","r","k","o","u","t">>,
     <<"d","e","n","t","i","s","t">>,
     <<"d","o","c","t","o","r">>,
     <<"n","o","-","s","u","g","a","r">> >>

HomeKeywords ==
  << <<"c","l","e","a","n">>,
     <<"o","r","g","a","n","i","z","e">>,
     <<"d","e","c","l","u","t","t","e","r">>,
     <<"k","i","t","c","h","e","n">>,
     <<"b","a","t","h","r","o","o","m">>,
     <<"g","a","r","a","g","e">>,
     <<"p","a","i","n","t">>,
     <<"r","o","o","m">>,
     <<"c","l","o","s","e","t">> >>

\* The key whose assignment goes through the setter of Object.prototype.
ProtoKey == <<"_","_","p","r","o","t","o","_","_">>

\* The properties an object literal inherits from Object.prototype.
ObjectPrototypeKeys ==
  { ProtoKey,
    <<"c","o","n","s","t","r","u","c","t","o","r">>,
    <<"t","o","S","t","r","i","n","g">>,
    <<"t","o","L","o","c","a","l","e","S","t","r","i","n","g">>,
    <<"v","a","l","u","e","O","f">>,
    <<"h","a","s","O","w","n","P","r","o","p","e","r","t","y">>,
    <<"i","s","P","r","o","t","o","t","y","p","e","O","f">>,
    <<"p","r","o","p","e","r","t","y","I","s","E","n","u","m","e","r","a","b","l","e">>,
    <<"_","_","d","e","f","i","n","e","G","e","t","t","e","r","_","_">>,
    <<"_","_","d","e","f","i","n","e","S","e","t","t","e","r","_","_">>,
    <<"_","_","l","o","o","k","u","p","G","e","t","t","e","r","_","_">>,
    <<"_","_","l","o","o","k","u","p","S","e","t","t","e","r","_","_">> }

\* The alternatives of `timePhrases` (line 54) that are literal phrases ...
timePhrasesLiteral ==
  << <<"t","o","m","o","r","r","o","w">>,
     <<"t","o","d","a","y">>,
     <<"y","e","s","t","e","r","d","a","y">>,
     <<"t","h","i","s"," ","w","e","e","k">>,
     <<"n","e","x","t"," ","w","e","e","k">> >>

\* ... and those that are a literal prefix followed by \w+.
timePhrasesOpen ==
  << <<"b","y"," ">>,
     <<"s","o","m","e","t","i","m","e"," ">>,
     <<"l","a","t","e","r"," ">>,
     <<"b","e","f","o","r","e"," ">> >>

\* `categories` (lines 57-63) in the order Object.entries yields them.
categories ==
  << [cat |-> "Work",     keywords |-> WorkKeywords],
     [cat |-> "Personal", keywords |-> PersonalKeywords],
     [cat |-> "Health",   keywords |-> HealthKeywords],
     [cat |-> "Home",     keywords |-> HomeKeywords],
     [cat |-> "Other",    keywords |-> << >>] >>

-----------------------------------------------------------------------------
(* Regular expressions                                                     *)

\* /\b(alt1|alt2|...)\b/i .test(s), s already lower-cased.
RegexTest(alts, s) ==
  \E p \in 1..Len(s) :
    /\ WordBoundary(s, p)
    /\ \E a \in DOMAIN alts :
         /\ LiteralAt(s, p, alts[a])
         /\ WordBoundary(s, p + Len(alts[a]))

\* The end of the longest run of \w characters that starts at p.
RECURSIVE WordRunEnd(_, _)
WordRunEnd(s, p) ==
  IF p <= Len(s) /\ IsWordChar(s[p]) THEN WordRunEnd(s, p + 1) ELSE p

\* Where a match of `timePhrases` that starts at p ends (exclusive);
\* 0 when there is none.
TimeMatchEnd(s, p) ==
  IF ~WordBoundary(s, p) THEN 0
  ELSE
    LET lit == { a \in DOMAIN timePhrasesLiteral :
                   /\ LiteralAt(s, p, timePhrasesLiteral[a])
                   /\ WordBoundary(s, p + Len(timePhrasesLiteral[a])) }
        opn == { a \in DOMAIN timePhrasesOpen :
                   /\ LiteralAt(s, p, timePhrasesOpen[a])
                   /\ p + Len(timePhrasesOpen[a]) <= Len(s)
                   /\ IsWordChar(s[p + Len(timePhrasesOpen[a])]) }
    IN  IF lit # {}
          THEN p + Len(timePhrasesLiteral[CHOOSE a \in lit : \A b \in lit : a <= b])
        ELSE IF opn # {}
          THEN LET a == CHOOSE x \in opn : \A b \in opn : x <= b
               IN  WordRunEnd(s, p + Len(timePhrasesOpen[a]))
        ELSE 0

\* s.match(timePhrases): the leftmost match, as [found, text].
RegexMatch(s) ==
  LET starts == { p \in 1..Len(s) : TimeMatchEnd(s, p) > 0 }
  IN  IF starts = {} THEN [found |-> FALSE, text |-> << >>]
      ELSE LET p == CHOOSE x \in starts : \A y \in starts : x <= y
           IN  [found |-> TRUE, text |-> SubSeq(s, p, TimeMatchEnd(s, p) - 1)]

-----------------------------------------------------------------------------
(* Dates                                                                   *)

IsLeapYear(y) == (y % 4 = 0 /\ y % 100 # 0) \/ y % 400 = 0

DaysInMonth(y, m) ==
  IF m = 2 THEN (IF IsLeapYear(y) THEN 29 ELSE 28)
  ELSE IF m \in {4, 6, 9, 11} THEN 30 ELSE 31

NextDay(t) ==
  IF t.d < DaysInMonth(t.y, t.m) THEN [t EXCEPT !.d = t.d + 1]
  ELSE IF t.m < 12 THEN [t EXCEPT !.m = t.m + 1, !.d = 1]
  ELSE [t EXCEPT !.y = t.y + 1, !.m = 1, !.d = 1]

PrevDay(t) ==
  IF t.d > 1 THEN [t EXCEPT !.d = t.d - 1]
  ELSE IF t.m > 1 THEN [t EXCEPT !.m = t.m - 1, !.d = DaysInMonth(t.y, t.m - 1)]
  ELSE [t EXCEPT !.y = t.y - 1, !.m = 12, !.d = 31]

\* A date-time [y, m, d, h] moved by n days.
RECURSIVE AddDays(_, _)
AddDays(t, n) ==
  IF n = 0 THEN t
  ELSE IF n > 0 THEN AddDays(NextDay(t), n - 1)
  ELSE AddDays(PrevDay(t), n + 1)

\* A date-time moved by n hours, -24 < n < 24.
AddHours(t, n) ==
  LET h == t.h + n
  IN  IF h >= 24 THEN [NextDay(t) EXCEPT !.h = h - 24]
      ELSE IF h < 0 THEN [PrevDay(t) EXCEPT !.h = h + 24]
      ELSE [t EXCEPT !.h = h]

\* A timestamp string is [fmt, y, m, d, h]:
\*   "iso"    YYYY-MM-DDTHH:00:00.000Z      "space"  YYYY-MM-DD HH:00:00
\*   "date"   YYYY-MM-DD                    "empty"  the empty string
Fields(t) == [y |-> t.y, m |-> t.m, d |-> t.d, h |-> t.h]

\* Date.prototype.toISOString of the Date whose UTC fields are t.
toISOString(t) == [fmt |-> "iso", y |-> t.y, m |-> t.m, d |-> t.d, h |-> t.h]

\* new Date(str): the UTC fields of the instant.  A string with a date and a
\* time but no zone is read as local time; the two ISO forms are UTC.
NewDate(str, zone) ==
  IF str.fmt = "space" THEN AddHours(Fields(str), 0 - zone)
  ELSE IF str.fmt = "date" THEN [Fields(str) EXCEPT !.h = 0]
  ELSE Fields(str)

\* date.setDate(date.getDate() + n): the day of the month is read and set
\* in local time (a zone with a fixed offset: no daylight-saving change).
setDate(t, n, zone) == AddHours(AddDays(AddHours(t, zone), n), 0 - zone)

\* str.split('T')[0] and str.split(' ')[0] of a timestamp string.
SplitT0(str) ==
  IF str.fmt = "iso" THEN [str EXCEPT !.fmt = "date", !.h = 0] ELSE str

SplitSpace0(str) ==
  IF str.fmt = "space" THEN [str EXCEPT !.fmt = "date", !.h = 0] ELSE str

-----------------------------------------------------------------------------
(* Values                                                                  *)

Undefined == [kind |-> "undefined"]

Null == [fmt |-> "null"]

Str(s) == [kind |-> "string", text |-> s]

\* JavaScript truthiness of an optional string argument.
TruthyArg(q) == q.kind = "string" /\ Truthy(q.text)

\* `query && query.trim()` (lines 67 and 149).
QueryGiven(q) == TruthyArg(q) /\ Truthy(trim(q.text))

\* A number is the real dot / sqrt(nn), nn > 0; embeddings hold integers
\* (hundredths), which leaves every cosine unchanged.
Num(dot, nn) == [kind |-> "number", dot |-> dot, nn |-> nn]

Zero == Num(0, 1)

RECURSIVE DotProduct(_, _)
DotProduct(a, b) ==
  IF a = << >> THEN 0 ELSE a[1] * b[1] + DotProduct(Tail(a), Tail(b))

\* cosineSimilarity as it would be dividing by the square of the norm of
\* the first vector.
cosineSimilarityProjection(a, b) ==
  IF Len(a) # Len(b) \/ Len(a) = 0 THEN Zero
  ELSE LET dotProduct == DotProduct(a, b)
           normA2 == DotProduct(a, a)
           normB2 == DotProduct(b, b)
       IN  IF normB2 = 0 \/ normA2 = 0 THEN Zero
           ELSE Num(dotProduct, normA2 * normA2)

\* cosineSimilarity (lines 77-83).
cosineSimilarity(a, b) ==
  IF Len(a) # Len(b) \/ Len(a) = 0 THEN Zero
  ELSE LET dotProduct == DotProduct(a, b)
           normA2 == DotProduct(a, a)
           normB2 == DotProduct(b, b)
       IN  IF normB2 = 0 \/ normA2 = 0 THEN Zero
           ELSE Num(dotProduct, normA2 * normB2)

\* `x.score || 0` (line 150).
ScoreOrZero(s) == IF s.kind = "number" THEN s ELSE Zero

\* The sign-preserving square, so that two numbers compare as reals.
SignedSquare(x) == IF x < 0 THEN 0 - x * x ELSE x * x

\* Whether the number x is less than the number y.
NumLess(x, y) == SignedSquare(x.dot) * y.nn < SignedSquare(y.dot) * x.nn

\* The comparator of line 150 with its operands exchanged.
ComparesBeforeAscending(a, b) == NumLess(ScoreOrZero(a.score), ScoreOrZero(b.score))

\* The comparator of line 150 is negative: a goes before b.
ComparesBefore(a, b) == NumLess(ScoreOrZero(b.score), ScoreOrZero(a.score))

\* Array.prototype.sort with the comparator of line 150: a stable sort, so
\* an element goes in front of the sorted rest only past the elements that
\* compare strictly before it.
RECURSIVE InsertSorted(_, _)
InsertSorted(t, sorted) ==
  IF sorted = << >> THEN << t >>
  ELSE IF ComparesBefore(sorted[1], t)
    THEN << sorted[1] >> \o InsertSorted(t, Tail(sorted))
  ELSE << t >> \o sorted

RECURSIVE SortByScore(_)
SortByScore(ts) ==
  IF ts = << >> THEN << >>
  ELSE InsertSorted(ts[1], SortByScore(Tail(ts)))

\* The fallback of embed (lines 29-31): eight numbers from the character
\* codes of the text, in hundredths.
StubEmbedding(text) ==
  [k \in 1..EmbedLength |->
     (IF Len(text) = 0 THEN 0 ELSE CharCode(text[((k - 1) % Len(text)) + 1])) % 100]

-----------------------------------------------------------------------------
(* Tag counting on a plain object                                          *)

\* tagFrequencies[tag] (line 94): an own property, else a property that
\* `{}` inherits from Object.prototype, else undefined.
GetCount(freq, tag) ==
  IF tag \in DOMAIN freq THEN freq[tag]
  ELSE IF tag \in ObjectPrototypeKeys THEN [kind |-> "inherited"]
  ELSE Undefined

\* `(x || 0) + 1`: a number is incremented; anything else truthy is
\* converted to a string and "1" is appended.
PlusOne(x) ==
  IF x.kind = "undefined" THEN [kind |-> "number", n |-> 1]
  ELSE IF x.kind = "number" THEN [kind |-> "number", n |-> x.n + 1]
  ELSE IF x.kind = "inherited" THEN [kind |-> "string", ones |-> 1]
  ELSE [kind |-> "string", ones |-> x.ones + 1]

\* tagFrequencies[tag] = v (line 94): assigning a primitive to __proto__
\* is ignored by the inherited setter.
SetCount(freq, tag, v) ==
  IF tag = ProtoKey THEN freq
  ELSE [t \in DOMAIN freq \cup {tag} |-> IF t = tag THEN v ELSE freq[t]]

\* The condition of line 93.
TagCounts(tag) == Truthy(tag) /\ Truthy(trim(tag)) /\ ~includes(tag, << "\"" >>)

\* The loop of lines 92-96 over the tags of one entry.
RECURSIVE CountTags(_, _)
CountTags(freq, tags) ==
  IF tags = << >> THEN freq
  ELSE CountTags(
         IF TagCounts(tags[1])
           THEN SetCount(freq, tags[1], PlusOne(GetCount(freq, tags[1])))
           ELSE freq,
         Tail(tags))

-----------------------------------------------------------------------------
(* One entry                                                               *)

\* Line 99.
Transcript(entry) ==
  IF Truthy(entry.transcript_user) THEN toLowerCase(entry.transcript_user) ELSE << >>

\* Line 100 as it would be if the raw transcript were tested.
IsTaskFromRaw(entry) ==
  Truthy(entry.transcript_raw) /\ RegexTest(taskVerbs, toLowerCase(entry.transcript_raw))

\* Line 100.
IsTask(entry) == Truthy(Transcript(entry)) /\ RegexTest(taskVerbs, Transcript(entry))

\* Lines 106-123.
DueDate(entry, zone, clock) ==
  LET transcript == Transcript(entry)
      timeMatch  == RegexMatch(transcript)
      phrase     == timeMatch.text
      created    == NewDate(IF entry.created_at.fmt # "empty" THEN entry.created_at
                            ELSE toISOString(clock), zone)
      shifted(n) == SplitT0(toISOString(setDate(created, n, zone)))
  IN  IF ~timeMatch.found THEN Null
      ELSE IF includes(phrase, <<"t","o","m","o","r","r","o","w">>) THEN shifted(1)
      ELSE IF includes(phrase, <<"t","o","d","a","y">>) THEN SplitSpace0(entry.created_at)
      ELSE IF includes(phrase, <<"y","e","s","t","e","r","d","a","y">>) THEN shifted(-1)
      ELSE IF \/ includes(phrase, <<"t","h","i","s"," ","w","e","e","k">>)
              \/ includes(phrase, <<"n","e","x","t"," ","w","e","e","k">>)
        THEN shifted(IF includes(phrase, <<"n","e","x","t">>) THEN 7 ELSE 0)
      ELSE [fmt |-> "text", text |-> phrase]

\* Line 87 (and 92): `entry.tags_user.length` of a record without tags_user
\* throws a TypeError.
TagsThrow(entry) == "tags_user" \in entry.absent

\* Line 115: `entry.created_at.split` of a task without created_at, reached
\* in the "today" branch, throws a TypeError.
DueDateThrows(entry) ==
  LET timeMatch == RegexMatch(Transcript(entry))
  IN  /\ "created_at" \in entry.absent
      /\ IsTask(entry)
      /\ timeMatch.found
      /\ ~includes(timeMatch.text, <<"t","o","m","o","r","r","o","w">>)
      /\ includes(timeMatch.text, <<"t","o","d","a","y">>)

\* Lines 126-131, from the k-th category on.
RECURSIVE CategoryFrom(_, _)
CategoryFrom(transcript, k) ==
  IF k > Len(categories) THEN "Other"
  ELSE IF \E w \in DOMAIN categories[k].keywords :
            includes(transcript, categories[k].keywords[w])
    THEN categories[k].cat
  ELSE CategoryFrom(transcript, k + 1)

\* Lines 126-131 as they would be without the `break`: the last category
\* with a keyword in the transcript wins.
CategoryLastWins(entry) ==
  LET hit == { k \in DOMAIN categories :
                 \E w \in DOMAIN categories[k].keywords :
                   includes(Transcript(entry), categories[k].keywords[w]) }
  IN  IF hit = {} THEN "Other"
      ELSE categories[CHOOSE k \in hit : \A j \in hit : j <= k].cat

Category(entry) == CategoryFrom(Transcript(entry), 1)

\* Lines 134-136 as they would be with a missing embedding defaulted to [].
ScoreDefaultingEmbedding(entry, qe) ==
  IF ~qe.isNull THEN cosineSimilarity(qe.v, entry.embedding.v) ELSE Undefined

\* Lines 134-136.
Score(entry, qe) ==
  IF ~qe.isNull /\ ~entry.embedding.isNull
    THEN cosineSimilarity(qe.v, entry.embedding.v)
  ELSE Undefined

\* Lines 138-144.  `entry` is the position of the source record in the
\* input, kept for stating properties; it is no field of the program's task.
Task(entry, k, qe, zone, clock) ==
  [ task_text |-> entry.transcript_user,
    due_date  |-> DueDate(entry, zone, clock),
    status    |-> "pending",
    category  |-> Category(entry),
    score     |-> Score(entry, qe),
    entry     |-> k ]

\* Line 154.
Summary(n, m, q) ==
  [ analysed |-> n, extracted |-> m,
    forQuery |-> IF TruthyArg(q) THEN << q.text >> ELSE << >> ]

NoEmbedding == [isNull |-> TRUE, v |-> << >>]

Embedding(v) == [isNull |-> FALSE, v |-> v]

-----------------------------------------------------------------------------
(* processEntries                                                          *)

Pending == [kind |-> "pending"]

\* Lines 49-50, 66-67: the locals are set up and the query is tested.
Begin ==
  /\ pc = "start"
  /\ IF QueryGiven(query)
       THEN /\ pc' = "await"
            /\ embedCalls' = embedCalls + 1
       ELSE /\ pc' = "loop"
            /\ UNCHANGED embedCalls
  /\ UNCHANGED << entries, query, provider, tz, now, earlier, queryEmbedding, i,
                  tagFrequencies, tasks, result, consoleLog >>

\* Line 68 with embed's fallback (lines 29-31): no API key.
EmbedStub ==
  /\ pc = "await"
  /\ provider = "stub"
  /\ queryEmbedding' = Embedding(StubEmbedding(query.text))
  /\ pc' = "loop"
  /\ UNCHANGED << entries, query, provider, tz, now, earlier, i, tagFrequencies, tasks,
                  result, embedCalls, consoleLog >>

\* Line 68 with embed's API call (lines 20-26) answering.
EmbedLive ==
  /\ pc = "await"
  /\ provider = "live"
  /\ \E v \in LiveVectors : queryEmbedding' = Embedding(v)
  /\ pc' = "loop"
  /\ UNCHANGED << entries, query, provider, tz, now, earlier, i, tagFrequencies, tasks,
                  result, embedCalls, consoleLog >>

\* Line 68 as it would be with the rejection caught and no embedding kept.
EmbedRejectCaught ==
  /\ pc = "await"
  /\ provider = "down"
  /\ pc' = "loop"
  /\ UNCHANGED << entries, query, provider, tz, now, earlier, queryEmbedding, i,
                  tagFrequencies, tasks, result, embedCalls, consoleLog >>

\* Line 68 with embed's API call (lines 20-26) failing: the rejection is
\* not caught, so the promise of processEntries is rejected with it.
EmbedReject ==
  /\ pc = "await"
  /\ provider = "down"
  /\ pc' = "failed"
  /\ result' = [kind |-> "error", error |-> "embed"]
  /\ UNCHANGED << entries, query, provider, tz, now, earlier, queryEmbedding, i,
                  tagFrequencies, tasks, embedCalls, consoleLog >>

\* The loop body as it would be with the provider called for each record
\* that is processed.
ProcessEntryEmbedding ==
  /\ pc = "loop"
  /\ i <= Len(entries)
  /\ LET entry == entries[i]
         thrown == [kind |-> "error", error |-> "TypeError"]
     IN  IF TagsThrow(entry)
           THEN /\ pc' = "failed"
                /\ result' = thrown
                /\ UNCHANGED << i, tagFrequencies, tasks, consoleLog >>
         ELSE IF DueDateThrows(entry)
           THEN /\ consoleLog' = IF Len(entry.tags_user) > 0 THEN consoleLog + 1
                                 ELSE consoleLog
                /\ tagFrequencies' = CountTags(tagFrequencies, entry.tags_user)
                /\ pc' = "failed"
                /\ result' = thrown
                /\ UNCHANGED << i, tasks >>
         ELSE /\ consoleLog' = IF Len(entry.tags_user) > 0 THEN consoleLog + 1
                               ELSE consoleLog
              /\ tagFrequencies' = CountTags(tagFrequencies, entry.tags_user)
              /\ tasks' = IF IsTask(entry)
                            THEN Append(tasks, Task(entry, i, queryEmbedding, tz, now))
                            ELSE tasks
              /\ i' = i + 1
              /\ UNCHANGED << pc, result >>
  /\ embedCalls' = embedCalls + 1
  /\ UNCHANGED << entries, query, provider, tz, now, earlier, queryEmbedding >>

\* Lines 85-146: one iteration of the loop.  An exception thrown in it is
\* not caught, so the promise of processEntries is rejected with it.
ProcessEntry ==
  /\ pc = "loop"
  /\ i <= Len(entries)
  /\ LET entry == entries[i]
         thrown == [kind |-> "error", error |-> "TypeError"]
     IN  IF TagsThrow(entry)
           THEN /\ pc' = "failed"
                /\ result' = thrown
                /\ UNCHANGED << i, tagFrequencies, tasks, consoleLog >>
         ELSE IF DueDateThrows(entry)
           THEN /\ consoleLog' = IF Len(entry.tags_user) > 0 THEN consoleLog + 1
                                 ELSE consoleLog
                /\ tagFrequencies' = CountTags(tagFrequencies, entry.tags_user)
                /\ pc' = "failed"
                /\ result' = thrown
                /\ UNCHANGED << i, tasks >>
         ELSE /\ consoleLog' = IF Len(entry.tags_user) > 0 THEN consoleLog + 1
                               ELSE consoleLog
              /\ tagFrequencies' = CountTags(tagFrequencies, entry.tags_user)
              /\ tasks' = IF IsTask(entry)
                            THEN Append(tasks, Task(entry, i, queryEmbedding, tz, now))
                            ELSE tasks
              /\ i' = i + 1
              /\ UNCHANGED << pc, result >>
  /\ UNCHANGED << entries, query, provider, tz, now, earlier, queryEmbedding, embedCalls >>

\* Lines 148-157: the sort and the result.
Return ==
  /\ pc = "loop"
  /\ i > Len(entries)
  /\ tasks' = IF QueryGiven(query) THEN SortByScore(tasks) ELSE tasks
  /\ result' = [ kind |-> "value",
                 summary |-> Summary(Len(entries), Len(tasks'), query),
                 tagFrequencies |-> tagFrequencies,
                 tasks |-> tasks' ]
  /\ pc' = "done"
  /\ UNCHANGED << entries, query, provider, tz, now, earlier, queryEmbedding, i,
                  tagFrequencies, embedCalls, consoleLog >>

Next == Begin \/ EmbedStub \/ EmbedLive \/ EmbedReject \/ ProcessEntry \/ Return

\* Hours between the settling of one invocation and the next call.
Elapsed == {0, 24}

\* processEntries is called again with the same entries and query, as the
\* tests do with one subset of the records: fresh locals (lines 49-50, 66),
\* the same provider, the clock where it has got to.
Reinvoke ==
  /\ pc \in {"done", "failed"}
  /\ Len(earlier) < MaxInvocations - 1
  /\ earlier' = Append(earlier, [ result |-> result,
                                  queryEmbedding |-> queryEmbedding,
                                  now |-> now ])
  /\ \E hours \in Elapsed : now' = AddHours(now, hours)
  /\ pc' = "start"
  /\ queryEmbedding' = NoEmbedding
  /\ i' = 1
  /\ tagFrequencies' = << >>
  /\ tasks' = << >>
  /\ result' = Pending
  /\ embedCalls' = 0
  /\ consoleLog' = 0
  /\ UNCHANGED << entries, query, provider, tz >>

NextRepeated == Next \/ Reinvoke

-----------------------------------------------------------------------------
(* Inputs                                                                  *)

\* "Email Sarah about the project"
EmailSarah == <<"E","m","a","i","l"," ","S","a","r","a","h"," ","a","b","o","u","t"," ","t","h","e"," ","p","r","o","j","e","c","t">>

\* "Book dentist appointment tomorrow"
BookDentist == <<"B","o","o","k"," ","d","e","n","t","i","s","t"," ","a","p","p","o","i","n","t","m","e","n","t"," ","t","o","m","o","r","r","o","w">>

\* "Had dinner with friends"
HadDinner == <<"H","a","d"," ","d","i","n","n","e","r"," ","w","i","t","h"," ","f","r","i","e","n","d","s">>

\* "Dentist today"
DentistToday == <<"D","e","n","t","i","s","t"," ","t","o","d","a","y">>

\* "Submit report by friday"
SubmitReport == <<"S","u","b","m","i","t"," ","r","e","p","o","r","t"," ","b","y"," ","f","r","i","d","a","y">>

\* "Call mom next week"
CallMom == <<"C","a","l","l"," ","m","o","m"," ","n","e","x","t"," ","w","e","e","k">>

\* "Clean garage this week"
CleanGarage == <<"C","l","e","a","n"," ","g","a","r","a","g","e"," ","t","h","i","s"," ","w","e","e","k">>

\* "Started workout yesterday"
StartWorkout == <<"S","t","a","r","t","e","d"," ","w","o","r","k","o","u","t"," ","y","e","s","t","e","r","d","a","y">>

\* "Planet news"
PlanetNews == <<"P","l","a","n","e","t"," ","n","e","w","s">>

\* "Buy milk"
BuyMilk == <<"B","u","y"," ","m","i","l","k">>

\* "Need a run before tomorrow"
RunBefore == <<"N","e","e","d"," ","a"," ","r","u","n"," ","b","e","f","o","r","e"," ","t","o","m","o","r","r","o","w">>

\* "Going to paint"
GoingToPaint == <<"G","o","i","n","g"," ","t","o"," ","p","a","i","n","t">>

\* "Hi"
Hi == <<"H","i">>

\* "Buy"
Buy == <<"B","u","y">>

\* A record with every field present; `absent` names the fields a record
\* lacks (they read as undefined).
Rec(user, raw, tags, created, embedding) ==
  [ transcript_raw |-> raw, transcript_user |-> user, tags_user |-> tags,
    created_at |-> created, embedding |-> embedding, absent |-> {} ]

Stamp(fmt, y, m, d, h) == [fmt |-> fmt, y |-> y, m |-> m, d |-> d, h |-> h]

EmptyString == Stamp("empty", 0, 0, 0, 0)

\* The record without the given fields.  What stands in a missing field is
\* the falsy value that `||`, `?:` and `&&` take undefined for (lines 99,
\* 101, 110, 134); where the code reads a property of the field itself
\* (lines 87, 92, 115), `absent` decides.
Without(rec, fields) ==
  [ transcript_raw  |-> rec.transcript_raw,
    transcript_user |-> IF "transcript_user" \in fields THEN << >> ELSE rec.transcript_user,
    tags_user       |-> IF "tags_user" \in fields THEN << >> ELSE rec.tags_user,
    created_at      |-> IF "created_at" \in fields THEN EmptyString ELSE rec.created_at,
    embedding       |-> IF "embedding" \in fields THEN NoEmbedding ELSE rec.embedding,
    absent          |-> fields ]

\* Every sequence over S of length at most n.
SeqsUpTo(S, n) == UNION { [1..k -> S] : k \in 0..n }

\* The state when processEntries is called with the given arguments in the
\* given environment.
InitWith(recs, maxN, queries, providers, zones, clocks) ==
  /\ entries \in SeqsUpTo(recs, maxN)
  /\ query \in queries
  /\ provider \in providers
  /\ tz \in zones
  /\ now \in clocks
  /\ pc = "start"
  /\ queryEmbedding = NoEmbedding
  /\ i = 1
  /\ tagFrequencies = << >>
  /\ tasks = << >>
  /\ result = Pending
  /\ embedCalls = 0
  /\ earlier = << >>
  /\ consoleLog = 0

Providers == {"stub", "live", "down"}

\* "he"
QueryHe == <<"h","e">>

Clock == [y |-> 2025, m |-> 7, d |-> 1, h |-> 12]

June17 == Stamp("date", 2025, 6, 17, 0)

\* Transcripts: the intent, the category and the phrase of each record.
TextTranscripts ==
  { << >>, EmailSarah, BookDentist, HadDinner, DentistToday, SubmitReport,
    CallMom, CleanGarage, StartWorkout, PlanetNews, BuyMilk, RunBefore,
    GoingToPaint }

TextRecords ==
  { Rec(u, BuyMilk, << >>, June17, NoEmbedding) : u \in TextTranscripts }

InitText ==
  InitWith(TextRecords, MaxTextEntries, {Undefined, Str(QueryHe)}, Providers,
           {0}, {Clock})

SpecText == InitText /\ [][Next]_vars
-----------------------------------------------------------------------------
(* Intent detection: C1, C2                                                *)

Done == pc = "done"

\* The tasks of the result that come from the k-th record.
TasksOf(k) == { j \in DOMAIN result.tasks : result.tasks[j].entry = k }

\* The time words of the task lexicon.
TimeWords == Range(timePhrasesLiteral)

\* The verb forms of the task lexicon: plan/need/want/schedule, "going to"
\* and the action verbs, base and inflected.
VerbForms == SelectSeq(taskVerbs, LAMBDA w : w \notin TimeWords)

\* Whether the text, lower-cased, holds one of the forms as a whole word.
HoldsForm(text, forms) ==
  LET lower == toLowerCase(text)
      wordAt(p) == p >= 1 /\ p <= Len(lower) /\ IsWordChar(lower[p])
  IN  \E p \in 1..Len(lower) :
        /\ ~wordAt(p - 1)
        /\ \E f \in DOMAIN forms :
             /\ p + Len(forms[f]) - 1 <= Len(lower)
             /\ ~wordAt(p + Len(forms[f]))
             /\ SubSeq(lower, p, p + Len(forms[f]) - 1) = forms[f]

C2_EmailSarahIsWorkTask ==
  Done =>
    \A k \in DOMAIN entries :
      entries[k].transcript_user = EmailSarah =>
        \E j \in TasksOf(k) :
          /\ result.tasks[j].category = "Work"
          /\ result.tasks[j].due_date = Null

-----------------------------------------------------------------------------
(* Categories: C9                                                          *)

\* Whether a keyword of the set occurs in the text, lower-cased.
Hits(text, keywords) ==
  LET lower == toLowerCase(text)
  IN  \E w \in DOMAIN keywords :
        \E p \in 1..(Len(lower) - Len(keywords[w]) + 1) :
          SubSeq(lower, p, p + Len(keywords[w]) - 1) = keywords[w]

\* C9: the category of every task is one of the five, and it is the first
\* of Work, Personal, Health, Home with a keyword that is a substring of the
\* lower-cased transcript, and Other when there is none.
C9_FirstCategoryWithKeyword ==
  Done =>
    \A j \in DOMAIN result.tasks :
      LET t == result.tasks[j].task_text
          c == result.tasks[j].category
      IN  /\ c \in {"Work", "Personal", "Health", "Home", "Other"}
          /\ c = "Work" <=> Hits(t, WorkKeywords)
          /\ c = "Personal" <=> ~Hits(t, WorkKeywords) /\ Hits(t, PersonalKeywords)
          /\ c = "Health" <=>
               /\ ~Hits(t, WorkKeywords) /\ ~Hits(t, PersonalKeywords)
               /\ Hits(t, HealthKeywords)
          /\ c = "Home" <=>
               /\ ~Hits(t, WorkKeywords) /\ ~Hits(t, PersonalKeywords)
               /\ ~Hits(t, HealthKeywords) /\ Hits(t, HomeKeywords)

\* A result with a task whose transcript holds keywords of two categories
\* ("work" in "workout"), one with keywords of none, and one of each other
\* category.
C9_Witness ==
  /\ Done
  /\ \E j \in DOMAIN result.tasks :
       /\ result.tasks[j].task_text = StartWorkout
       /\ result.tasks[j].category = "Work"
  /\ \E j \in DOMAIN result.tasks :
       /\ result.tasks[j].task_text = BuyMilk
       /\ result.tasks[j].category = "Other"
-----------------------------------------------------------------------------
(* Due dates: C3, C4                                                       *)

\* Creation timestamps: mid-month, the end of a year, the end of February
\* in a leap year and the first of March, in each format.
Stamps ==
  { Stamp(f, t[1], t[2], t[3], IF f = "date" THEN 0 ELSE t[4]) :
      f \in {"iso", "space", "date"},
      t \in { <<2025, 6, 17, 10>>, <<2024, 12, 31, 22>>,
              <<2024, 2, 28, 3>>, <<2025, 3, 1, 1>> } }

DateTranscripts ==
  { BookDentist, DentistToday, SubmitReport, CallMom, CleanGarage,
    StartWorkout, RunBefore, BuyMilk }

DateRecords ==
  { Rec(u, << >>, << >>, c, NoEmbedding) : u \in DateTranscripts, c \in Stamps }

InitDates ==
  InitWith(DateRecords, MaxDateEntries, {Undefined, Str(QueryHe)}, Providers,
           {-5, 0, 9}, {Clock})

SpecDates == InitDates /\ [][Next]_vars

\* C3: the due date of every task of a result is null or a date-only
\* string YYYY-MM-DD, never a timestamp with a time part and never the text
\* of a phrase.
C3_DueDateIsNullOrDateOnly ==
  Done =>
    \A j \in DOMAIN result.tasks : result.tasks[j].due_date.fmt \in {"null", "date"}

\* The days that each resolved phrase moves the creation date by.
PhraseOffset(phrase) ==
  IF phrase = timePhrasesLiteral[1] THEN 1
  ELSE IF phrase = timePhrasesLiteral[3] THEN -1
  ELSE IF phrase = timePhrasesLiteral[5] THEN 7
  ELSE 0

\* C4: when the first time phrase of a task's transcript is tomorrow, today,
\* yesterday, this week or next week, the due date is the date-only string
\* of the record's creation date moved by +1, 0, -1, 0 or +7 days; when no
\* time phrase matches, the due date is absent.
C4_DueDateIsCreationDateShifted ==
  Done =>
    \A j \in DOMAIN result.tasks :
      LET e == entries[result.tasks[j].entry]
          first == RegexMatch(toLowerCase(e.transcript_user))
          due == AddDays(Fields(e.created_at), PhraseOffset(first.text))
      IN  /\ ~first.found => result.tasks[j].due_date = Null
          /\ first.found /\ first.text \in TimeWords /\ e.created_at.fmt # "empty" =>
               result.tasks[j].due_date = Stamp("date", due.y, due.m, due.d, 0)
-----------------------------------------------------------------------------
(* Tag frequencies: C8                                                     *)

\* Tags: two that differ in case only, an empty one, a blank one, one with
\* a quote, and two that name properties of Object.prototype.
Tags ==
  { <<"a">>, <<"A">>, << >>, <<" ">>, <<"a", "\"">>,
    <<"c","o","n","s","t","r","u","c","t","o","r">>, ProtoKey }

TagRecords ==
  { Rec(u, << >>, tags, June17, NoEmbedding) :
      u \in {Buy, Hi}, tags \in SeqsUpTo(Tags, MaxTags) }

InitTags ==
  InitWith(TagRecords, MaxTagEntries, {Undefined, Str(QueryHe)}, Providers,
           {0}, {Clock})

SpecTags == InitTags /\ [][Next]_vars

\* A tag that is to be counted: not empty after trimming, no quote in it.
WellFormedTag(tag) ==
  /\ \E p \in DOMAIN tag : tag[p] # " "
  /\ \A p \in DOMAIN tag : tag[p] # "\""

\* The places <<record, position>> of the input that hold the tag.
PlacesOf(tag) ==
  { <<k, p>> \in (DOMAIN entries) \X (1..MaxTags) :
      p <= Len(entries[k].tags_user) /\ entries[k].tags_user[p] = tag }

RECURSIVE SumOfCounts(_, _)
SumOfCounts(freq, keys) ==
  IF keys = {} THEN 0
  ELSE LET key == CHOOSE x \in keys : TRUE
       IN  freq[key].n + SumOfCounts(freq, keys \ {key})

\* C8: every value of tagFrequencies is the number of places where exactly
\* that tag stands in the input, a tag is a key just when it is well formed
\* and occurs, and so the values add up to the number of well-formed tags
\* of all records.
C8_TagSumIsWellFormedTagCount ==
  Done =>
    LET freq == result.tagFrequencies
        wellFormed == { tag \in Tags : WellFormedTag(tag) /\ PlacesOf(tag) # {} }
    IN  /\ \A tag \in DOMAIN freq : freq[tag].kind = "number"
        /\ DOMAIN freq = wellFormed
        /\ \A tag \in wellFormed : freq[tag].n = Cardinality(PlacesOf(tag))
        /\ SumOfCounts(freq, DOMAIN freq)
             = Cardinality(UNION { PlacesOf(tag) : tag \in wellFormed })
-----------------------------------------------------------------------------
(* Scores, order, summary and failure: C5, C6, C7, C10                     *)

\* Record embeddings: none, an empty one, three of the length the API
\* answers with and one of the length of the fallback.
Embeddings ==
  { NoEmbedding, Embedding(<< >>), Embedding(<<1, 0>>), Embedding(<<0, 1>>),
    Embedding(<<-1, 0>>), Embedding(<<1, 0, 1, 0, 1, 0, 1, 0>>) }

RankRecords ==
  { Rec(Buy, << >>, << >>, June17, e) : e \in Embeddings }
  \cup { Rec(Hi, << >>, << >>, June17, NoEmbedding) }

Queries == { Undefined, Str(<< >>), Str(<<" ">>), Str(QueryHe) }

InitRank ==
  InitWith(RankRecords, MaxRankEntries, Queries, Providers, {0}, {Clock})

SpecRank == InitRank /\ [][Next]_vars

\* A query that is supplied and not empty: a string with a character that
\* is not white space.
QueryNonEmpty == query.kind = "string" /\ \E p \in DOMAIN query.text : query.text[p] # " "

HasScore(t) == t.score.kind = "number"

\* C5: a task carries a score just when the query is non-empty and its
\* source record carries an embedding; so with an absent, empty or blank
\* query no task carries one.
C5_ScoreIffQueryAndEmbedding ==
  Done =>
    \A j \in DOMAIN result.tasks :
      HasScore(result.tasks[j])
        <=> QueryNonEmpty /\ ~entries[result.tasks[j].entry].embedding.isNull

\* A result for a non-empty query with a scored and an unscored task.
C5_Witness ==
  /\ Done
  /\ QueryNonEmpty
  /\ \E j, k \in DOMAIN result.tasks :
       HasScore(result.tasks[j]) /\ ~HasScore(result.tasks[k])

\* The score of a task with an absent score counted as 0.
ScoreOf(t) == IF HasScore(t) THEN t.score ELSE Zero

\* C6: without a query the tasks stand in the order of their source
\* records; with a non-empty query no task stands before one of greater
\* score, and tasks of equal score stand in the order of their source
\* records.
C6_InputOrderOrStableByScore ==
  Done =>
    \A j, k \in DOMAIN result.tasks :
      j < k =>
        LET a == result.tasks[j]
            b == result.tasks[k]
        IN  IF QueryNonEmpty
              THEN /\ ~NumLess(ScoreOf(a), ScoreOf(b))
                   /\ ~NumLess(ScoreOf(b), ScoreOf(a)) => a.entry < b.entry
              ELSE a.entry < b.entry

\* A result for a non-empty query whose tasks were reordered, with two
\* tasks of equal score, one of them unscored, and one of negative score.
C6_Witness ==
  /\ Done
  /\ QueryNonEmpty
  /\ \E j, k \in DOMAIN result.tasks : j < k /\ result.tasks[j].entry > result.tasks[k].entry
  /\ \E j, k \in DOMAIN result.tasks :
       /\ j < k
       /\ HasScore(result.tasks[j]) /\ ~HasScore(result.tasks[k])
       /\ ~NumLess(ScoreOf(result.tasks[k]), ScoreOf(result.tasks[j]))
  /\ \E j \in DOMAIN result.tasks : NumLess(ScoreOf(result.tasks[j]), Zero)

\* C7: the summary names the number of records and the number of tasks of
\* the result, and the query just when the query is non-empty; an absent,
\* empty or blank query adds nothing.
C7_SummaryNamesQueryIffNonEmpty ==
  Done =>
    result.summary =
      [ analysed |-> Len(entries), extracted |-> Len(result.tasks),
        forQuery |-> IF QueryNonEmpty THEN << query.text >> ELSE << >> ]

\* C10: with a non-empty query and a failing provider the invocation gets
\* no further than the call of embed: it ends rejected with the provider's
\* error, and never with a result; without a query it is never rejected,
\* whatever the provider.
C10_ProviderFailureFailsInvocation ==
  /\ QueryNonEmpty /\ provider = "down" =>
       /\ pc \in {"start", "await", "failed"}
       /\ result.kind # "value"
       /\ pc = "failed" <=> result = [kind |-> "error", error |-> "embed"]
  /\ ~QueryNonEmpty => pc # "failed" /\ result.kind # "error"

\* An invocation over some records, rejected with the provider's error.
C10_Witness ==
  /\ pc = "failed"
  /\ result.kind = "error"
  /\ Len(entries) > 0

\* C13: an invocation calls embed at most once; once the query has been
\* tested it has called embed once if the query is non-empty and not at
\* all if the query is absent, empty or blank, however many records it goes
\* on to process; and no record is processed before the call has answered.
C13_EmbedOncePerInvocationBeforeRecords ==
  /\ embedCalls <= 1
  /\ pc # "start" => embedCalls = IF QueryNonEmpty THEN 1 ELSE 0
  /\ pc \in {"start", "await"} =>
       i = 1 /\ tasks = << >> /\ tagFrequencies = << >> /\ consoleLog = 0

\* An invocation with a non-empty query that has processed several records.
C13_Witness ==
  /\ Done
  /\ QueryNonEmpty
  /\ Len(entries) >= 2
  /\ Len(result.tasks) >= 2
  /\ embedCalls = 1

-----------------------------------------------------------------------------
(* Malformed records: C11                                                  *)

RecordFields == {"transcript_user", "tags_user", "created_at", "embedding"}

\* Records that lack none, one or all of the four fields, and records whose
\* fields are all empty, with a transcript that is a task with "today", one
\* that is a task with "tomorrow", and one that is no task.
MalformedRecords ==
  { Without(Rec(u, << >>, << <<"a">> >>, June17, Embedding(<<1, 0>>)), fields) :
      u \in {DentistToday, BookDentist, Hi},
      fields \in {{}, RecordFields} \cup { {f} : f \in RecordFields } }
  \cup { Rec(u, << >>, << >>, EmptyString, Embedding(<< >>)) :
           u \in {DentistToday, BookDentist, << >>} }

InitMalformed ==
  InitWith(MalformedRecords, MaxMalformedEntries, {Undefined, Str(QueryHe)},
           Providers, {0}, {Clock})

SpecMalformed == InitMalformed /\ [][Next]_vars

\* C11: no record with a missing or empty tag list, transcript, creation
\* timestamp or embedding makes processEntries raise: the only error an
\* invocation ends with is the embedding provider's, and an invocation that
\* has left the call of embed behind is never rejected.
C11_MalformedRecordNeverRaises ==
  /\ result.kind = "error" => result.error = "embed"
  /\ pc = "failed" => i = 1 /\ tasks = << >> /\ provider = "down"
-----------------------------------------------------------------------------
(* Repeated invocations: C12                                               *)

\* Records with and without a creation timestamp, with each kind of time
\* phrase and with none.
PureRecords ==
  { Rec(u, << >>, << <<"a">> >>, c, Embedding(<<1, 0>>)) :
      u \in {BookDentist, DentistToday, CleanGarage, Hi},
      c \in {June17, EmptyString} }

InitPure ==
  InitWith(PureRecords, MaxPureEntries, {Undefined, Str(QueryHe)}, Providers,
           {0}, {Clock})

SpecPure == InitPure /\ [][NextRepeated]_vars

\* C12: an invocation that has settled has settled with what every earlier
\* invocation on the same records and query settled with, when the provider
\* answered both alike, whatever the clock read at either.
C12_SameResultAsEarlierInvocation ==
  pc \in {"done", "failed"} =>
    \A k \in DOMAIN earlier :
      earlier[k].queryEmbedding = queryEmbedding => earlier[k].result = result
-----------------------------------------------------------------------------
(* Cosine similarity: C14                                                  *)

\* The query "d": the fallback embedding of it is the zero vector, since
\* its one character has code 100.
QueryD == <<"d">>

\* Record embeddings: none, the empty one, zero vectors and others of the
\* two lengths that query embeddings have.
CosineEmbeddings ==
  { NoEmbedding, Embedding(<< >>), Embedding(<<0, 0>>), Embedding(<<1, 1>>),
    Embedding(<<-1, 1>>), Embedding(<<0, 0, 0, 0, 0, 0, 0, 0>>),
    Embedding(<<1, 0, 1, 0, 1, 0, 1, 0>>) }

CosineRecords == { Rec(Buy, << >>, << >>, June17, e) : e \in CosineEmbeddings }

InitCosine ==
  InitWith(CosineRecords, MaxCosineEntries, {Str(QueryHe), Str(QueryD)},
           Providers, {0}, {Clock})

SpecCosine == InitCosine /\ [][Next]_vars

\* The sum of the products of the components of two vectors of one length.
RECURSIVE SumOfProducts(_, _, _)
SumOfProducts(a, b, n) ==
  IF n = 0 THEN 0 ELSE SumOfProducts(a, b, n - 1) + a[n] * b[n]

\* The square of the Euclidean norm.
SquaredNorm(a) == SumOfProducts(a, a, Len(a))

====
